---- MODULE Spec2Model ----
(***************************************************************************)
(* Model of the expression parser of fend (core/src/parser.rs).            *)
(*                                                                         *)
(* The parser is a set of pure functions from a token cursor (a slice,     *)
(* here a sequence) to Result<(Expr, remaining), ParseError>.  Each        *)
(* function is an operator of the same name; a `loop`/`while let` of the   *)
(* source is a RECURSIVE operator named <function>_loop.  The state        *)
(* machine at the end of the module calls the entry points on bounded      *)
(* token sequences and runs the loop of parse_multiplicative one           *)
(* iteration per step.  A second state machine runs Date::today           *)
(* (core/src/date.rs) one loop iteration per step.                         *)
(***************************************************************************)
EXTENDS Integers, Sequences, FiniteSets, TLC

VARIABLES tokens, call, pc, res, input, last, out,
          current_time, days, year, month

vars == <<tokens, call, pc, res, input, last, out,
          current_time, days, year, month>>

(* The locals of Date::today (core/src/date.rs); the parser never touches  *)
(* them.                                                                   *)
date_vars == <<current_time, days, year, month>>

----------------------------------------------------------------------------
(* Tokens (crate::lexer::Token, as the parser matches on it).              *)

Num(n) == [t |-> "Num", v |-> n]
Ident(s) == [t |-> "Ident", v |-> s]
StringLiteral(s) == [t |-> "StringLiteral", v |-> s]
Symbol(s) == [t |-> "Symbol", v |-> s]
Whitespace == [t |-> "Whitespace", v |-> ""]

(* Ident::is_prefix_unit lives in the lexer; the parser only asks it.      *)
is_prefix_unit(i) == i = "$"

----------------------------------------------------------------------------
(* Expr (crate::ast::Expr) and Value, as built by the parser.              *)

ValueNum(n) == [vt |-> "Num", n |-> n]
ValueString(s) == [vt |-> "String", s |-> s]
ValueUnit == [vt |-> "Unit"]

Literal(v) == [k |-> "Literal", v |-> v]
ExprIdent(s) == [k |-> "Ident", name |-> s]
Of(s, e) == [k |-> "Of", name |-> s, inner |-> e]
Parens(e) == [k |-> "Parens", inner |-> e]
Fn(s, e) == [k |-> "Fn", name |-> s, body |-> e]
Apply(a, b) == [k |-> "Apply", a |-> a, b |-> b]
ApplyFunctionCall(a, b) == [k |-> "ApplyFunctionCall", a |-> a, b |-> b]
ApplyMul(a, b) == [k |-> "ApplyMul", a |-> a, b |-> b]
Bop(op, a, b) == [k |-> "Bop", op |-> op, a |-> a, b |-> b]
UnaryMinus(e) == [k |-> "UnaryMinus", inner |-> e]
UnaryPlus(e) == [k |-> "UnaryPlus", inner |-> e]
UnaryDiv(e) == [k |-> "UnaryDiv", inner |-> e]
Factorial(e) == [k |-> "Factorial", inner |-> e]
Assign(s, e) == [k |-> "Assign", name |-> s, rhs |-> e]
Statements(a, b) == [k |-> "Statements", a |-> a, b |-> b]
As(a, b) == [k |-> "As", a |-> a, b |-> b]

IsNumLiteral(e) == e.k = "Literal" /\ e.v.vt = "Num"
IsBop(e, op) == e.k = "Bop" /\ e.op = op

(* ParseResult: Ok((value, remaining)) or Err(ParseError).  An error is    *)
(* the variant name followed by its fields.                                *)
Ok(v, remaining) == [ok |-> TRUE, val |-> v, rest |-> remaining]
Err(e) == [ok |-> FALSE, err |-> e]

----------------------------------------------------------------------------
RECURSIVE parse_token(_, _)
RECURSIVE parse_parens(_)
RECURSIVE parse_backslash_lambda(_)
RECURSIVE parse_parens_or_literal(_)
RECURSIVE parse_factorial_loop(_, _)
RECURSIVE parse_power(_, _)
RECURSIVE parse_multiplicative_loop(_, _)
RECURSIVE parse_implicit_addition(_)
RECURSIVE parse_additive_loop(_, _)
RECURSIVE parse_function(_)
RECURSIVE parse_assignment(_)
RECURSIVE parse_statements_skip(_)
RECURSIVE parse_statements_loop(_, _)
RECURSIVE parse_expression(_)

(* Control flow of the source, as operators on a ParseResult r:            *)
(*   Try(r, K)          `let x = r?; K(x)`                                 *)
(*   IfLetOk(r, K, e)   `if let Ok(x) = r { K(x) } else { e }`             *)
(*   Let(v, K)          `let x = v; K(x)`                                  *)
Try(r, K(_)) == IF r.ok THEN K(r) ELSE r
IfLetOk(r, K(_), else) == IF r.ok THEN K(r) ELSE else
Let(v, K(_)) == K(v)

parse_token(inp, skip_whitespace) ==
    IF inp = <<>> THEN Err(<<"ExpectedAToken">>)
    ELSE IF skip_whitespace /\ Head(inp).t = "Whitespace"
         THEN parse_token(Tail(inp), skip_whitespace)
         ELSE Ok(Head(inp), Tail(inp))

parse_fixed_symbol(inp, symbol) ==
    Try(parse_token(inp, TRUE), LAMBDA r :
        IF r.val.t = "Symbol"
        THEN IF r.val.v = symbol
             THEN Ok("unit", r.rest)
             ELSE Err(<<"ExpectedToken", r.val.v, symbol>>)
        ELSE Err(<<"FoundInvalidTokenWhileExpecting", symbol>>))

parse_number(inp) ==
    Try(parse_token(inp, TRUE), LAMBDA r :
        IF r.val.t = "Num"
        THEN Ok(Literal(ValueNum(r.val.v)), r.rest)
        ELSE Err(<<"ExpectedANumber">>))

parse_ident(inp) ==
    Try(parse_token(inp, TRUE), LAMBDA r :
        IF r.val.t = "Ident"
        THEN IfLetOk(parse_fixed_symbol(r.rest, "Of"),
                 LAMBDA o :
                     Try(parse_parens_or_literal(o.rest), LAMBDA inner :
                         Ok(Of(r.val.v, inner.val), inner.rest)),
                 Ok(ExprIdent(r.val.v), r.rest))
        ELSE Err(<<"ExpectedIdentifier">>))

(* parse_parens without the leniency: the ')' is required at end of input  *)
(* too.                                                                    *)
parse_parens_strict(inp) ==
    Try(parse_fixed_symbol(inp, "OpenParens"), LAMBDA o :
        IfLetOk(parse_fixed_symbol(o.rest, "CloseParens"),
            LAMBDA c : Ok(Literal(ValueUnit), c.rest),
            Try(parse_expression(o.rest), LAMBDA inner :
                Try(parse_fixed_symbol(inner.rest, "CloseParens"),
                    LAMBDA c : Ok(Parens(inner.val), c.rest)))))

parse_parens(inp) ==
    Try(parse_fixed_symbol(inp, "OpenParens"), LAMBDA o :
        IfLetOk(parse_fixed_symbol(o.rest, "CloseParens"),
            LAMBDA c : Ok(Literal(ValueUnit), c.rest),
            Try(parse_expression(o.rest), LAMBDA inner :
                \* allow omitting closing parentheses at end of input
                IF inner.rest # <<>>
                THEN Try(parse_fixed_symbol(inner.rest, "CloseParens"),
                         LAMBDA c : Ok(Parens(inner.val), c.rest))
                ELSE Ok(Parens(inner.val), inner.rest))))

parse_backslash_lambda(inp) ==
    Try(parse_fixed_symbol(inp, "Backslash"), LAMBDA b :
        Try(parse_ident(b.rest), LAMBDA i :
            IF i.val.k # "Ident" THEN Err(<<"ExpectedIdentifier">>)
            ELSE Let(parse_fixed_symbol(i.rest, "Dot"), LAMBDA d :
                     IF ~d.ok THEN Err(<<"ExpectedDotInLambda">> \o d.err)
                     ELSE Try(parse_function(d.rest), LAMBDA rhs :
                              Ok(Fn(i.val.name, rhs.val), rhs.rest)))))

parse_parens_or_literal(inp) ==
    Try(parse_token(inp, TRUE), LAMBDA r :
        CASE r.val.t = "Num" -> parse_number(inp)
          [] r.val.t = "Ident" -> parse_ident(inp)
          [] r.val.t = "StringLiteral" ->
               Ok(Literal(ValueString(r.val.v)), r.rest)
          [] r.val.t = "Symbol" /\ r.val.v = "OpenParens" -> parse_parens(inp)
          [] r.val.t = "Symbol" /\ r.val.v = "Backslash" ->
               parse_backslash_lambda(inp)
          [] r.val.t = "Symbol" /\ r.val.v \notin {"OpenParens", "Backslash"} ->
               Err(<<"UnexpectedSymbol", r.val.v>>)
          [] r.val.t = "Whitespace" -> Err(<<"UnexpectedWhitespace">>))

(* The `while let` of parse_factorial.                                     *)
parse_factorial_loop(result, inp) ==
    IfLetOk(parse_fixed_symbol(inp, "Factorial"),
        LAMBDA f : parse_factorial_loop(Factorial(result), f.rest),
        Ok(result, inp))

parse_factorial(inp) ==
    Try(parse_parens_or_literal(inp), LAMBDA r :
        parse_factorial_loop(r.val, r.rest))

(* parse_power after its unary prefixes: a factorial term and an optional  *)
(* '^' whose right operand is again a power, unary prefixes allowed.       *)
parse_power_tail(inp) ==
    Try(parse_factorial(inp), LAMBDA f :
        IfLetOk(parse_fixed_symbol(f.rest, "Pow"),
            LAMBDA p :
                Try(parse_power(p.rest, TRUE), LAMBDA rhs :
                    Ok(Bop("Pow", f.val, rhs.val), rhs.rest)),
            f))

(* parse_power with the unary minus binding tighter than '^': the minus    *)
(* wraps the factorial term only.                                          *)
parse_power_minus_first(inp, allow_unary) ==
    IF allow_unary /\ parse_fixed_symbol(inp, "Sub").ok
    THEN Try(parse_factorial(parse_fixed_symbol(inp, "Sub").rest), LAMBDA f :
             IfLetOk(parse_fixed_symbol(f.rest, "Pow"),
                 LAMBDA p :
                     Try(parse_power(p.rest, TRUE), LAMBDA rhs :
                         Ok(Bop("Pow", UnaryMinus(f.val), rhs.val), rhs.rest)),
                 Ok(UnaryMinus(f.val), f.rest)))
    ELSE IF allow_unary /\ parse_fixed_symbol(inp, "Add").ok
    THEN Try(parse_power(parse_fixed_symbol(inp, "Add").rest, TRUE),
             LAMBDA r : Ok(UnaryPlus(r.val), r.rest))
    ELSE IF allow_unary /\ parse_fixed_symbol(inp, "Div").ok
    THEN Try(parse_power(parse_fixed_symbol(inp, "Div").rest, TRUE),
             LAMBDA r : Ok(UnaryDiv(r.val), r.rest))
    ELSE parse_power_tail(inp)

parse_power(inp, allow_unary) ==
    IF allow_unary /\ parse_fixed_symbol(inp, "Sub").ok
    THEN Try(parse_power(parse_fixed_symbol(inp, "Sub").rest, TRUE),
             LAMBDA r : Ok(UnaryMinus(r.val), r.rest))
    ELSE IF allow_unary /\ parse_fixed_symbol(inp, "Add").ok
    THEN Try(parse_power(parse_fixed_symbol(inp, "Add").rest, TRUE),
             LAMBDA r : Ok(UnaryPlus(r.val), r.rest))
    \* The precedence of unary division relative to exponentiation
    \* is not important because /a^b -> (1/a)^b == 1/(a^b)
    ELSE IF allow_unary /\ parse_fixed_symbol(inp, "Div").ok
    THEN Try(parse_power(parse_fixed_symbol(inp, "Div").rest, TRUE),
             LAMBDA r : Ok(UnaryDiv(r.val), r.rest))
    ELSE parse_power_tail(inp)

(* parse_apply_cont: the arms of the match on (lhs, rhs), in source order. *)
NumMinusOrApplyMul(lhs) ==
    IsNumLiteral(lhs) \/ lhs.k = "UnaryMinus" \/ lhs.k = "ApplyMul"

apply_operands(lhs, rhs, remaining) ==
    IF NumMinusOrApplyMul(lhs) /\ IsNumLiteral(rhs)
    \* this may later be parsed as a compound fraction, e.g. 1 2/3
    \* or as an addition, e.g. 6 feet 1 inch
    THEN Err(<<"InvalidApplyOperands">>)
    ELSE IF NumMinusOrApplyMul(lhs) /\ IsBop(rhs, "Pow")
    THEN IF IsNumLiteral(rhs.a)
         THEN Err(<<"InvalidApplyOperands">>)
         ELSE Ok(Apply(lhs, rhs), remaining)
    \* support e.g. '$5'
    ELSE IF lhs.k = "Ident" /\ IsNumLiteral(rhs) /\ is_prefix_unit(lhs.name)
    THEN Ok(Apply(lhs, rhs), remaining)
    ELSE IF IsNumLiteral(rhs)
    THEN Ok(ApplyFunctionCall(lhs, rhs), remaining)
    ELSE IF IsNumLiteral(lhs) \/ lhs.k = "ApplyMul"
    THEN Ok(ApplyMul(lhs, rhs), remaining)
    ELSE Ok(Apply(lhs, rhs), remaining)

parse_apply_cont(inp, lhs) ==
    Try(parse_power(inp, FALSE), LAMBDA r : apply_operands(lhs, r.val, r.rest))

(* The first match of parse_mixed_fraction: (positive, lhs, other_factor), *)
(* or not ok where the source returns Err(InvalidMixedFraction).           *)
NoFactor == [k |-> "None"]

(* mixed_fraction_lhs taking any UnaryMinus(_), as parse_apply_cont does.  *)
mixed_fraction_lhs_any_minus(lhs) ==
    IF IsNumLiteral(lhs)
    THEN [ok |-> TRUE, positive |-> TRUE, lhs |-> lhs, other_factor |-> NoFactor]
    ELSE IF lhs.k = "UnaryMinus"
    THEN [ok |-> TRUE, positive |-> FALSE, lhs |-> lhs,
          other_factor |-> NoFactor]
    ELSE IF IsBop(lhs, "Mul")
    THEN IF IsNumLiteral(lhs.b)
         THEN [ok |-> TRUE, positive |-> TRUE, lhs |-> lhs.b,
               other_factor |-> lhs.a]
         ELSE IF lhs.b.k = "UnaryMinus"
         THEN [ok |-> TRUE, positive |-> FALSE, lhs |-> lhs.b,
               other_factor |-> lhs.a]
         ELSE [ok |-> FALSE]
    ELSE [ok |-> FALSE]

mixed_fraction_lhs(lhs) ==
    IF IsNumLiteral(lhs)
    THEN [ok |-> TRUE, positive |-> TRUE, lhs |-> lhs, other_factor |-> NoFactor]
    ELSE IF lhs.k = "UnaryMinus"
    THEN IF IsNumLiteral(lhs.inner)
         THEN [ok |-> TRUE, positive |-> FALSE, lhs |-> lhs,
               other_factor |-> NoFactor]
         ELSE [ok |-> FALSE]
    ELSE IF IsBop(lhs, "Mul")
    THEN IF IsNumLiteral(lhs.b)
         THEN [ok |-> TRUE, positive |-> TRUE, lhs |-> lhs.b,
               other_factor |-> lhs.a]
         ELSE IF lhs.b.k = "UnaryMinus"
         THEN IF IsNumLiteral(lhs.b.inner)
              THEN [ok |-> TRUE, positive |-> FALSE, lhs |-> lhs.b,
                    other_factor |-> lhs.a]
              ELSE [ok |-> FALSE]
         ELSE [ok |-> FALSE]
    ELSE [ok |-> FALSE]

(* The Expr parse_mixed_fraction builds from m = (positive, lhs,           *)
(* other_factor) and the two parsed numbers.                               *)
mixed_fraction_expr(m, rhs_top, rhs_bottom) ==
    Let(IF m.positive
        THEN Bop("Plus", m.lhs, Bop("Div", rhs_top, rhs_bottom))
        ELSE Bop("Minus", m.lhs, Bop("Div", rhs_top, rhs_bottom)),
        LAMBDA sum :
            IF m.other_factor = NoFactor THEN sum
            ELSE Bop("Mul", m.other_factor, sum))

parse_mixed_fraction(inp, lhs) ==
    Let(mixed_fraction_lhs(lhs), LAMBDA m :
    IF ~m.ok THEN Err(<<"InvalidMixedFraction">>)
    ELSE
    Try(parse_power(inp, FALSE), LAMBDA rhs_top :
    IF ~IsNumLiteral(rhs_top.val) THEN Err(<<"InvalidMixedFraction">>)
    ELSE
    Try(parse_fixed_symbol(rhs_top.rest, "Div"), LAMBDA d :
    Try(parse_power(d.rest, FALSE), LAMBDA rhs_bottom :
    IF ~IsNumLiteral(rhs_bottom.val) THEN Err(<<"InvalidMixedFraction">>)
    ELSE Ok(mixed_fraction_expr(m, rhs_top.val, rhs_bottom.val),
            rhs_bottom.rest)))))

parse_multiplication_cont(inp) ==
    Try(parse_fixed_symbol(inp, "Mul"), LAMBDA s : parse_power(s.rest, TRUE))

parse_division_cont(inp) ==
    Try(parse_fixed_symbol(inp, "Div"), LAMBDA s : parse_power(s.rest, TRUE))

parse_modulo_cont(inp) ==
    Try(parse_fixed_symbol(inp, "Mod"), LAMBDA s : parse_power(s.rest, TRUE))

(* One iteration of the loop of parse_multiplicative: the alternative      *)
(* taken (alt), the new `res` and `input`, and what parse_mixed_fraction   *)
(* and parse_apply_cont returned if they were called (NotTried if not).    *)
NotTried == [ok |-> FALSE, err |-> <<"NotTried">>]

Iteration(alt, result, remaining, mixed, apply) ==
    [alt |-> alt, res |-> result, rest |-> remaining,
     mixed |-> mixed, apply |-> apply]

parse_multiplicative_step(result, inp) ==
    IfLetOk(parse_multiplication_cont(inp),
        LAMBDA term : Iteration("multiplication", Bop("Mul", result, term.val),
                                term.rest, NotTried, NotTried),
    IfLetOk(parse_division_cont(inp),
        LAMBDA term : Iteration("division", Bop("Div", result, term.val),
                                term.rest, NotTried, NotTried),
    IfLetOk(parse_modulo_cont(inp),
        LAMBDA term : Iteration("modulo", Bop("Mod", result, term.val),
                                term.rest, NotTried, NotTried),
    Let(parse_mixed_fraction(inp, result), LAMBDA mixed :
        IF mixed.ok
        THEN Iteration("mixed_fraction", mixed.val, mixed.rest, mixed, NotTried)
        ELSE Let(parse_apply_cont(inp, result), LAMBDA apply :
                 IF apply.ok
                 THEN Iteration("apply", apply.val, apply.rest, mixed, apply)
                 ELSE Iteration("break", result, inp, mixed, apply))))))

(* The loop with `parse_apply_cont(input, &res)?` as its last alternative: *)
(* the failure of the application ends the function, not the loop.         *)
parse_multiplicative_loop_leaking(result, inp) ==
    Let(parse_multiplicative_step(result, inp), LAMBDA s :
        IF s.alt = "break" THEN s.apply
        ELSE parse_multiplicative_loop(s.res, s.rest))

parse_multiplicative_loop(result, inp) ==
    Let(parse_multiplicative_step(result, inp), LAMBDA s :
        IF s.alt = "break" THEN Ok(result, inp)
        ELSE parse_multiplicative_loop(s.res, s.rest))

parse_multiplicative(inp) ==
    Try(parse_power(inp, TRUE), LAMBDA r :
        parse_multiplicative_loop(r.val, r.rest))

(* parse_implicit_addition without the Expr::Literal(_) alternative of its  *)
(* pattern.                                                                *)
parse_implicit_addition_no_literal(inp) ==
    Try(parse_multiplicative(inp), LAMBDA r :
        Let(parse_implicit_addition(r.rest), LAMBDA rhs :
            IF /\ rhs.ok
               /\ r.val.k = "ApplyMul"
               /\ \/ rhs.val.k = "ApplyMul"
                  \/ IsBop(rhs.val, "ImplicitPlus")
            THEN Ok(Bop("ImplicitPlus", r.val, rhs.val), rhs.rest)
            ELSE r))

parse_implicit_addition(inp) ==
    Try(parse_multiplicative(inp), LAMBDA r :
        Let(parse_implicit_addition(r.rest), LAMBDA rhs :
            \* n i n i, n i i n i i, etc. (n: number literal, i: identifier)
            IF /\ rhs.ok
               /\ r.val.k = "ApplyMul"
               /\ \/ rhs.val.k = "ApplyMul"
                  \/ IsBop(rhs.val, "ImplicitPlus")
                  \/ rhs.val.k = "Literal"
            THEN Ok(Bop("ImplicitPlus", r.val, rhs.val), rhs.rest)
            ELSE r))

parse_addition_cont(inp) ==
    Try(parse_fixed_symbol(inp, "Add"), LAMBDA s :
        parse_implicit_addition(s.rest))

parse_subtraction_cont(inp) ==
    Try(parse_fixed_symbol(inp, "Sub"), LAMBDA s :
        parse_implicit_addition(s.rest))

parse_to_cont(inp) ==
    Try(parse_fixed_symbol(inp, "UnitConversion"), LAMBDA s :
        parse_implicit_addition(s.rest))

(* The loop of parse_additive.                                             *)
parse_additive_loop(result, inp) ==
    IfLetOk(parse_addition_cont(inp),
        LAMBDA term :
            parse_additive_loop(Bop("Plus", result, term.val), term.rest),
    IfLetOk(parse_subtraction_cont(inp),
        LAMBDA term :
            parse_additive_loop(Bop("Minus", result, term.val), term.rest),
    IfLetOk(parse_to_cont(inp),
        LAMBDA term : parse_additive_loop(As(result, term.val), term.rest),
    Ok(result, inp))))

parse_additive(inp) ==
    Try(parse_implicit_addition(inp), LAMBDA r :
        parse_additive_loop(r.val, r.rest))

parse_function(inp) ==
    Try(parse_additive(inp), LAMBDA lhs :
        IfLetOk(parse_fixed_symbol(lhs.rest, "Fn"),
            LAMBDA f :
                IF lhs.val.k = "Ident"
                THEN Try(parse_function(f.rest), LAMBDA rhs :
                         Ok(Fn(lhs.val.name, rhs.val), rhs.rest))
                ELSE Err(<<"ExpectedIdentifierAsArgument">>),
            lhs))

(* parse_assignment that gives up on the '=' when the left side is no      *)
(* identifier: it returns the left side and leaves the '=' to the caller.  *)
parse_assignment_soft(inp) ==
    Try(parse_function(inp), LAMBDA lhs :
        IfLetOk(parse_fixed_symbol(lhs.rest, "Equals"),
            LAMBDA e :
                IF lhs.val.k = "Ident"
                THEN Try(parse_assignment(e.rest), LAMBDA rhs :
                         Ok(Assign(lhs.val.name, rhs.val), rhs.rest))
                ELSE lhs,
            lhs))

parse_assignment(inp) ==
    Try(parse_function(inp), LAMBDA lhs :
        IfLetOk(parse_fixed_symbol(lhs.rest, "Equals"),
            LAMBDA e :
                IF lhs.val.k = "Ident"
                THEN Try(parse_assignment(e.rest), LAMBDA rhs :
                         Ok(Assign(lhs.val.name, rhs.val), rhs.rest))
                ELSE Err(<<"ExpectedIdentifierInAssignment">>),
            lhs))

(* The first loop of parse_statements: the cursor after the leading ';'.   *)
parse_statements_skip(inp) ==
    IfLetOk(parse_fixed_symbol(inp, "Semicolon"),
        LAMBDA s : parse_statements_skip(s.rest),
        inp)

(* The second loop of parse_statements.                                    *)
parse_statements_loop(result, inp) ==
    IfLetOk(parse_fixed_symbol(inp, "Semicolon"),
        LAMBDA s :
            IF s.rest = <<>> \/ Head(s.rest) = Symbol("Semicolon")
            THEN parse_statements_loop(result, s.rest)
            ELSE Try(parse_assignment(s.rest), LAMBDA rhs :
                     parse_statements_loop(Statements(result, rhs.val),
                                           rhs.rest)),
        Ok(result, inp))

parse_statements(inp) ==
    Let(parse_statements_skip(inp), LAMBDA i :
        IF i = <<>> THEN Ok(Literal(ValueUnit), <<>>)
        ELSE Try(parse_assignment(i), LAMBDA r :
                 parse_statements_loop(r.val, r.rest)))

parse_expression(inp) == parse_statements(inp)

(* Result<Expr, ParseError>: no cursor is returned.                        *)
OkExpr(e) == [ok |-> TRUE, val |-> e]

(* parse_tokens without the check of the remaining input.                  *)
parse_tokens_ignoring_rest(inp) ==
    Try(parse_expression(inp), LAMBDA r : OkExpr(r.val))

parse_tokens(inp) ==
    Try(parse_expression(inp), LAMBDA r :
        IF r.rest # <<>> THEN Err(<<"UnexpectedInput">>)
        ELSE OkExpr(r.val))

----------------------------------------------------------------------------
(* The inputs: every token sequence of at most MaxLenAll tokens over the   *)
(* whole alphabet, and the longer sequences over the vocabularies of the   *)
(* grammar's layers.                                                       *)

MaxLenAll == 2
MaxLenJuxtapose == 5
MaxLenFraction == 7
MaxLenTerm == 5
MaxLenCompound == 7
MaxLenStatements == 6
MaxLenParens == 5

Symbols ==
    {"OpenParens", "CloseParens", "Add", "Sub", "Mul", "Div", "Mod", "Pow",
     "Factorial", "Backslash", "Dot", "Fn", "Equals", "Semicolon",
     "UnitConversion", "Of"}

AllTokens ==
    {Num("1"), Num("2"), Ident("x"), Ident("$"), StringLiteral("s"), Whitespace}
        \cup {Symbol(s) : s \in Symbols}

Families ==
    {[vocabulary |-> AllTokens, max |-> MaxLenAll],
     [vocabulary |-> {Num("1"), Ident("x"), Ident("$"), Symbol("Sub"),
                      Symbol("Pow")},
      max |-> MaxLenJuxtapose],
     [vocabulary |-> {Num("1"), Symbol("Sub"), Symbol("Mul"), Symbol("Div")},
      max |-> MaxLenFraction],
     [vocabulary |-> {Num("1"), Symbol("Div"), Symbol("Mod"), Symbol("Pow"),
                      Symbol("Factorial"), Whitespace},
      max |-> MaxLenTerm],
     [vocabulary |-> {Num("1"), Ident("x"), Symbol("Div")},
      max |-> MaxLenCompound],
     [vocabulary |-> {Num("1"), Symbol("Semicolon"), Whitespace},
      max |-> MaxLenStatements],
     [vocabulary |-> {Num("1"), Symbol("Add"), Symbol("OpenParens"),
                      Symbol("CloseParens"), Whitespace},
      max |-> MaxLenParens]}

----------------------------------------------------------------------------
(* The state machine.  tokens is the caller's token slice; call names the  *)
(* function called on it and out is what it returned.  parse_multiplicative*)
(* is run one loop iteration per step: res and input are its `res` and     *)
(* `input`, last is the iteration that was just made.                      *)

None == [k |-> "None"]
NoCall == <<"none">>
NoStep == [alt |-> "none"]

(* The parser is about to be called on one of the inputs of F; nothing of  *)
(* Date::today is running.                                                 *)
Ready(F) ==
    /\ \E f \in F : \E m \in 0..f.max :
           tokens \in [1..m -> f.vocabulary]
    /\ call = NoCall
    /\ pc = "ready"
    /\ res = None
    /\ input = <<>>
    /\ last = NoStep
    /\ out = None
    /\ current_time = None
    /\ days = 0
    /\ year = 0
    /\ month = "None"

Init == Ready(Families)

(* A call of a function on tokens that returns r.                         *)
Return(c, r) ==
    /\ call' = c
    /\ out' = r
    /\ pc' = "returned"
    /\ UNCHANGED <<tokens, res, input, last>>
    /\ UNCHANGED date_vars

call_parse_tokens ==
    /\ pc = "ready"
    /\ Return(<<"parse_tokens">>, parse_tokens(tokens))

call_parse_power ==
    /\ pc = "ready"
    /\ \E allow_unary \in BOOLEAN :
           Return(<<"parse_power", allow_unary>>,
                  parse_power(tokens, allow_unary))

call_parse_parens ==
    /\ pc = "ready"
    /\ Return(<<"parse_parens">>, parse_parens(tokens))

call_parse_implicit_addition ==
    /\ pc = "ready"
    /\ Return(<<"parse_implicit_addition">>, parse_implicit_addition(tokens))

(* parse_multiplicative up to its loop: `parse_power(input, true)?`.       *)
Enter(r) ==
    IF r.ok
    THEN /\ pc' = "loop"
         /\ res' = r.val
         /\ input' = r.rest
         /\ UNCHANGED out
    ELSE /\ pc' = "returned"
         /\ out' = r
         /\ UNCHANGED <<res, input>>

call_parse_multiplicative ==
    /\ pc = "ready"
    /\ call' = <<"parse_multiplicative">>
    /\ Enter(parse_power(tokens, TRUE))
    /\ UNCHANGED <<tokens, last>>
    /\ UNCHANGED date_vars

(* One iteration s of the loop, taking the alternative alt.                *)
Iterate(s, alt) ==
    /\ s.alt = alt
    /\ res' = s.res
    /\ input' = s.rest
    /\ last' = [alt |-> s.alt, lhs |-> res, at |-> input,
                mixed |-> s.mixed, apply |-> s.apply]

multiplication_cont ==
    /\ pc = "loop"
    /\ Iterate(parse_multiplicative_step(res, input), "multiplication")
    /\ UNCHANGED <<tokens, call, pc, out>>
    /\ UNCHANGED date_vars

division_cont ==
    /\ pc = "loop"
    /\ Iterate(parse_multiplicative_step(res, input), "division")
    /\ UNCHANGED <<tokens, call, pc, out>>
    /\ UNCHANGED date_vars

modulo_cont ==
    /\ pc = "loop"
    /\ Iterate(parse_multiplicative_step(res, input), "modulo")
    /\ UNCHANGED <<tokens, call, pc, out>>
    /\ UNCHANGED date_vars

mixed_fraction_cont ==
    /\ pc = "loop"
    /\ Iterate(parse_multiplicative_step(res, input), "mixed_fraction")
    /\ UNCHANGED <<tokens, call, pc, out>>
    /\ UNCHANGED date_vars

apply_cont ==
    /\ pc = "loop"
    /\ Iterate(parse_multiplicative_step(res, input), "apply")
    /\ UNCHANGED <<tokens, call, pc, out>>
    /\ UNCHANGED date_vars

(* `break` and the return of Ok((res, input)).                             *)
loop_break ==
    /\ pc = "loop"
    /\ Iterate(parse_multiplicative_step(res, input), "break")
    /\ out' = Ok(res, input)
    /\ pc' = "returned"
    /\ UNCHANGED <<tokens, call>>
    /\ UNCHANGED date_vars

Next ==
    \/ call_parse_tokens
    \/ call_parse_power
    \/ call_parse_parens
    \/ call_parse_implicit_addition
    \/ call_parse_multiplicative
    \/ multiplication_cont
    \/ division_cont
    \/ modulo_cont
    \/ mixed_fraction_cont
    \/ apply_cont
    \/ loop_break

Spec == Init /\ [][Next]_vars

----------------------------------------------------------------------------
(* The binding forms: assignment, function arrow and backslash lambda.     *)
(* The same calls, on inputs over the vocabulary of these forms.           *)

MaxLenBinding == 5
MaxLenLambda == 5

BindingFamilies ==
    {[vocabulary |-> AllTokens, max |-> MaxLenAll],
     [vocabulary |-> {Num("1"), Ident("x"), Symbol("Equals"), Symbol("Fn"),
                      Symbol("OpenParens"), Symbol("CloseParens"),
                      Symbol("Of")},
      max |-> MaxLenBinding],
     [vocabulary |-> {Num("1"), Ident("x"), Symbol("Backslash"),
                      Symbol("Dot"), Whitespace},
      max |-> MaxLenLambda]}

InitBinding == Ready(BindingFamilies)

call_parse_assignment ==
    /\ pc = "ready"
    /\ Return(<<"parse_assignment">>, parse_assignment(tokens))

call_parse_function ==
    /\ pc = "ready"
    /\ Return(<<"parse_function">>, parse_function(tokens))

call_parse_backslash_lambda ==
    /\ pc = "ready"
    /\ Return(<<"parse_backslash_lambda">>, parse_backslash_lambda(tokens))

call_parse_parens_or_literal ==
    /\ pc = "ready"
    /\ Return(<<"parse_parens_or_literal">>, parse_parens_or_literal(tokens))

NextBinding ==
    \/ call_parse_assignment
    \/ call_parse_function
    \/ call_parse_backslash_lambda
    \/ call_parse_parens_or_literal
    \/ call_parse_tokens

SpecBinding == InitBinding /\ [][NextBinding]_vars

----------------------------------------------------------------------------
(* Date::today (core/src/date.rs).  Year, Month and Day live in the        *)
(* submodules date/year.rs, date/month.rs and date/day.rs; today() uses    *)
(* them through the operators below.                                       *)

is_leap_year(y) == (y % 4 = 0 /\ y % 100 # 0) \/ y % 400 = 0

Year_number_of_days(y) == IF is_leap_year(y) THEN 366 ELSE 365

Year_next(y) == y + 1

Months ==
    <<"January", "February", "March", "April", "May", "June", "July",
      "August", "September", "October", "November", "December">>

MonthIndex(m) == CHOOSE i \in 1..12 : Months[i] = m

Month_number_of_days(m, y) ==
    CASE m = "February" -> IF is_leap_year(y) THEN 29 ELSE 28
      [] m \in {"April", "June", "September", "November"} -> 30
      [] OTHER -> 31

Month_next(m) == Months[(MonthIndex(m) % 12) + 1]

(* Day::new keeps the u8 it is given.                                      *)
Day_new(d) == d

(* `x as u8` of an i64.                                                    *)
as_u8(x) == x % 256

MsPerDay == 86400000

(* The clock: elapsed_unix_time_ms is kept as whole days and milliseconds  *)
(* of the day (elapsed = whole_days * MsPerDay + ms_of_day), so that      *)
(* every number of the model fits in 32 bits.                              *)
MaxDay == 800

TimesOfDay == {0, MsPerDay - 1}
TimezoneOffsets == {-3600, 0, 3600}

Clocks ==
    [whole_days : 0..MaxDay, ms_of_day : TimesOfDay,
     timezone_offset_secs : TimezoneOffsets]

(* ms_since_epoch = elapsed - timezone_offset_secs * 1000, in days and     *)
(* milliseconds: floor is its floored quotient by MsPerDay.                *)
ms_of_day_adjusted(t) == t.ms_of_day - t.timezone_offset_secs * 1000

(* ms_since_epoch / 86_400_000 of i64: the quotient truncates towards 0.   *)
days_since_epoch(t) ==
    LET floor == t.whole_days + (ms_of_day_adjusted(t) \div MsPerDay) IN
    IF floor < 0 /\ ms_of_day_adjusted(t) % MsPerDay # 0
    THEN floor + 1
    ELSE floor

Date(y, m, d) == [year |-> y, month |-> m, day |-> d]

(* context.current_time is Some(t) for a clock t, or None.                 *)
InitToday ==
    /\ current_time \in Clocks \cup {None}
    /\ pc = "today"
    /\ days = 0
    /\ year = 0
    /\ month = "None"
    /\ out = None
    /\ tokens = <<>>
    /\ call = <<"today">>
    /\ res = None
    /\ input = <<>>
    /\ last = NoStep

parser_vars == <<tokens, call, res, input, last>>

(* `return Err(FendError::UnableToGetCurrentDate)`.                        *)
no_current_time ==
    /\ pc = "today"
    /\ current_time = None
    /\ out' = Err(<<"UnableToGetCurrentDate">>)
    /\ pc' = "returned"
    /\ UNCHANGED <<current_time, days, year, month>>
    /\ UNCHANGED parser_vars

(* Up to the first loop: days and year = Year::new(1970).                  *)
today_days ==
    /\ pc = "today"
    /\ current_time # None
    /\ days' = days_since_epoch(current_time)
    /\ year' = 1970
    /\ pc' = "year_loop"
    /\ UNCHANGED <<current_time, month, out>>
    /\ UNCHANGED parser_vars

(* One iteration of `while days >= year.number_of_days()`.                 *)
year_loop ==
    /\ pc = "year_loop"
    /\ days >= Year_number_of_days(year)
    /\ year' = Year_next(year)
    /\ days' = days - Year_number_of_days(year')
    /\ UNCHANGED <<current_time, month, out, pc>>
    /\ UNCHANGED parser_vars

(* The end of the first loop and `let mut month = Month::January`.         *)
year_found ==
    /\ pc = "year_loop"
    /\ ~(days >= Year_number_of_days(year))
    /\ month' = "January"
    /\ pc' = "month_loop"
    /\ UNCHANGED <<current_time, days, year, out>>
    /\ UNCHANGED parser_vars

(* One iteration of `while days >= month.number_of_days(year)`.            *)
month_loop ==
    /\ pc = "month_loop"
    /\ days >= Month_number_of_days(month, year)
    /\ month' = Month_next(month)
    /\ days' = days - Month_number_of_days(month', year)
    /\ UNCHANGED <<current_time, year, out, pc>>
    /\ UNCHANGED parser_vars

(* The end of the second loop and the Ok(Self { year, month, day }).       *)
month_found ==
    /\ pc = "month_loop"
    /\ ~(days >= Month_number_of_days(month, year))
    /\ out' = [ok |-> TRUE, val |-> Date(year, month, Day_new(as_u8(days)))]
    /\ pc' = "returned"
    /\ UNCHANGED <<current_time, days, year, month>>
    /\ UNCHANGED parser_vars

NextToday ==
    \/ no_current_time
    \/ today_days
    \/ year_loop
    \/ year_found
    \/ month_loop
    \/ month_found

SpecToday == InitToday /\ [][NextToday]_vars

----------------------------------------------------------------------------
(* What the claims speak of.                                               *)

(* The last loop iteration called parse_apply_cont(last.at, last.lhs).     *)
ApplyTried == last.alt \in {"apply", "break"}

(* The last loop iteration called parse_mixed_fraction(last.at, last.lhs). *)
MixedTried == last.alt \in {"mixed_fraction", "apply", "break"}

(* The rhs of that call: the power term at last.at, unary prefixes off.    *)
LastRhs == parse_power(last.at, FALSE)

(* A bare numeric literal, or UnaryMinus of one.                           *)
IsSignedNumLiteral(e) ==
    IsNumLiteral(e) \/ (e.k = "UnaryMinus" /\ IsNumLiteral(e.inner))

(* C1: in parse_apply_cont with a bare numeric literal as rhs, the call    *)
(* fails exactly when lhs is a bare numeric literal, UnaryMinus of a bare  *)
(* numeric literal or an ApplyMul; it yields Apply(lhs, rhs) when lhs is a *)
(* prefix-unit identifier and ApplyFunctionCall(lhs, rhs) for every other  *)
(* lhs.                                                                    *)
C1_ApplyToNumber ==
    (ApplyTried /\ LastRhs.ok /\ IsNumLiteral(LastRhs.val)) =>
        IF IsSignedNumLiteral(last.lhs) \/ last.lhs.k = "ApplyMul"
        THEN ~last.apply.ok
        ELSE IF last.lhs.k = "Ident" /\ is_prefix_unit(last.lhs.name)
        THEN last.apply = Ok(Apply(last.lhs, LastRhs.val), LastRhs.rest)
        ELSE last.apply
                 = Ok(ApplyFunctionCall(last.lhs, LastRhs.val), LastRhs.rest)

(* C2: in parse_apply_cont, when lhs is a bare numeric literal or an       *)
(* ApplyMul and rhs is neither a bare numeric literal nor a Pow whose base *)
(* is one, the result is ApplyMul(lhs, rhs).                               *)
C2_ImplicitMultiplication ==
    (/\ ApplyTried
     /\ LastRhs.ok
     /\ IsNumLiteral(last.lhs) \/ last.lhs.k = "ApplyMul"
     /\ ~IsNumLiteral(LastRhs.val)
     /\ ~(IsBop(LastRhs.val, "Pow") /\ IsNumLiteral(LastRhs.val.a)))
        => last.apply = Ok(ApplyMul(last.lhs, LastRhs.val), LastRhs.rest)

(* The tokens of a cursor that are not whitespace, and the cursor after    *)
(* its first n such tokens.                                                *)
NonWhitespace(seq) == SelectSeq(seq, LAMBDA t : t.t # "Whitespace")

RECURSIVE AfterTokens(_, _)
AfterTokens(seq, n) ==
    IF n = 0 \/ seq = <<>> THEN seq
    ELSE IF Head(seq).t = "Whitespace" THEN AfterTokens(Tail(seq), n)
    ELSE AfterTokens(Tail(seq), n - 1)

(* The cursor starts with number '/' number, and each number is a whole    *)
(* power term: no '!' or '^' follows it.                                   *)
StartsWithFraction(seq) ==
    LET nw == NonWhitespace(seq) IN
    /\ Len(nw) >= 3
    /\ nw[1].t = "Num"
    /\ nw[2] = Symbol("Div")
    /\ nw[3].t = "Num"
    /\ Len(nw) >= 4 => nw[4] \notin {Symbol("Pow"), Symbol("Factorial")}

(* L plus or minus n/d, the sign being that of L.                          *)
SignedSum(L, n, d) ==
    IF IsNumLiteral(L) THEN Bop("Plus", L, Bop("Div", n, d))
    ELSE Bop("Minus", L, Bop("Div", n, d))

MixedFractionOf(L, seq) ==
    LET nw == NonWhitespace(seq)
        n == Literal(ValueNum(nw[1].v))
        d == Literal(ValueNum(nw[3].v))
    IN IF IsSignedNumLiteral(L) THEN SignedSum(L, n, d)
       ELSE Bop("Mul", L.a, SignedSum(L.b, n, d))

MixedEligible(L) ==
    IsSignedNumLiteral(L) \/ (IsBop(L, "Mul") /\ IsSignedNumLiteral(L.b))

(* C3: parse_mixed_fraction succeeds iff L is a bare numeric literal, a    *)
(* UnaryMinus of one, or Mul(other, X) with X of those shapes, and the     *)
(* cursor holds number '/' number, each a whole power term.  On success    *)
(* the result is L + n/d or L - n/d by the sign of L (of X), inside        *)
(* Mul(other, _) when there is an outer factor.  On failure nothing is     *)
(* consumed: parse_multiplicative calls parse_apply_cont on the same       *)
(* cursor and, if that fails too, ends the chain at that cursor.           *)
C3_MixedFraction ==
    MixedTried =>
        /\ last.mixed.ok
              <=> (MixedEligible(last.lhs) /\ StartsWithFraction(last.at))
        /\ last.mixed.ok =>
              /\ last.alt = "mixed_fraction"
              /\ last.mixed = Ok(MixedFractionOf(last.lhs, last.at),
                                 AfterTokens(last.at, 3))
              /\ res = last.mixed.val
              /\ input = last.mixed.rest
        /\ ~last.mixed.ok =>
              /\ last.alt \in {"apply", "break"}
              /\ last.apply = parse_apply_cont(last.at, last.lhs)
              /\ last.alt = "break" <=> ~last.apply.ok
              /\ last.alt = "break" => (res = last.lhs /\ input = last.at)
              /\ last.alt = "apply" =>
                     (res = last.apply.val /\ input = last.apply.rest)

(* A mixed fraction was taken after `other * -number`.                     *)
C3_Witness ==
    /\ last.alt = "mixed_fraction"
    /\ IsBop(last.lhs, "Mul")
    /\ last.lhs.b.k = "UnaryMinus"
    /\ input = <<>>

(* parse_mixed_fraction failed on an eligible L and the chain went on with *)
(* parse_apply_cont from the same cursor.                                  *)
C3_WitnessFallThrough ==
    /\ last.alt = "apply"
    /\ MixedEligible(last.lhs)
    /\ last.mixed.err = <<"InvalidMixedFraction">>

(* A token that is a number; one that is an identifier and no prefix unit. *)
IsNumToken(t) == t.t = "Num"
IsUnitToken(t) == t.t = "Ident" /\ ~is_prefix_unit(t.v)

NumExpr(t) == Literal(ValueNum(t.v))

IsApplication(e) == e.k \in {"Apply", "ApplyMul", "ApplyFunctionCall"}

(* C4: parse_tokens on n1 u1 n2 a / b u2 ("5 feet 2 1/2 inches") succeeds  *)
(* with the implicit sum of ApplyMul(n1, u1) and the mixed fraction        *)
(* n2 + a/b attached to u2.                                                *)
C4_CompoundWithMixedFraction ==
    LET nw == NonWhitespace(tokens) IN
    (/\ call = <<"parse_tokens">>
     /\ Len(nw) = 7
     /\ IsNumToken(nw[1]) /\ IsUnitToken(nw[2])
     /\ IsNumToken(nw[3]) /\ IsNumToken(nw[4]) /\ nw[5] = Symbol("Div")
     /\ IsNumToken(nw[6]) /\ IsUnitToken(nw[7]))
        => /\ out.ok
           /\ IsBop(out.val, "ImplicitPlus")
           /\ out.val.a = ApplyMul(NumExpr(nw[1]), ExprIdent(nw[2].v))
           /\ IsApplication(out.val.b)
           /\ out.val.b.a = Bop("Plus", NumExpr(nw[3]),
                                Bop("Div", NumExpr(nw[4]), NumExpr(nw[6])))
           /\ out.val.b.b = ExprIdent(nw[7].v)

(* The terms parse_implicit_addition combines.                             *)
ImplicitSummands(L, R) ==
    /\ L.k = "ApplyMul"
    /\ R.k = "ApplyMul" \/ IsBop(R, "ImplicitPlus") \/ R.k = "Literal"

(* C5: parse_implicit_addition parses a multiplicative term L, then an     *)
(* implicit-addition term R from the cursor after L.  It returns           *)
(* Bop(ImplicitPlus, L, R) with R's cursor iff L is an ApplyMul and R is   *)
(* an ApplyMul, an ImplicitPlus or a literal; in every other case it       *)
(* returns L with the cursor where L ended.  n u n u gives                 *)
(* ImplicitPlus(ApplyMul(n, u), ApplyMul(n, u)); longer chains nest to the *)
(* right.                                                                  *)
C5_ImplicitAddition ==
    call = <<"parse_implicit_addition">> =>
        LET L == parse_multiplicative(tokens)
            R == parse_implicit_addition(L.rest)
            nw == NonWhitespace(tokens)
            Term(i) == ApplyMul(NumExpr(nw[i]), ExprIdent(nw[i + 1].v))
            IsTerm(i) == IsNumToken(nw[i]) /\ IsUnitToken(nw[i + 1])
        IN
        /\ out.ok <=> L.ok
        /\ L.ok =>
              IF R.ok /\ ImplicitSummands(L.val, R.val)
              THEN out = Ok(Bop("ImplicitPlus", L.val, R.val), R.rest)
              ELSE out = Ok(L.val, L.rest)
        /\ (Len(nw) = 4 /\ IsTerm(1) /\ IsTerm(3)) =>
              out = Ok(Bop("ImplicitPlus", Term(1), Term(3)), <<>>)
        /\ (Len(nw) = 6 /\ IsTerm(1) /\ IsTerm(3) /\ IsTerm(5)) =>
              out = Ok(Bop("ImplicitPlus", Term(1),
                           Bop("ImplicitPlus", Term(3), Term(5))), <<>>)

(* A chain of three terms was parsed into a right-nested implicit sum.     *)
C5_Witness ==
    /\ call = <<"parse_implicit_addition">>
    /\ Len(tokens) = 6
    /\ out.ok
    /\ IsBop(out.val, "ImplicitPlus")
    /\ IsBop(out.val.b, "ImplicitPlus")
    /\ out.rest = <<>>

(* R parsed but was not combined: L is returned with its own cursor.       *)
C5_WitnessNotCombined ==
    /\ call = <<"parse_implicit_addition">>
    /\ out.ok
    /\ out.rest # <<>>
    /\ parse_implicit_addition(out.rest).ok

Semicolon == Symbol("Semicolon")

(* s with the token t inserted before position p (p = Len(s) + 1 appends). *)
InsertAt(s, p, t) == SubSeq(s, 1, p - 1) \o <<t>> \o SubSeq(s, p, Len(s))

(* Position p of s is next to a ';', whitespace tokens in between at most. *)
NextToSemicolon(s, p) ==
    \/ \E i \in 1..(p - 1) :
          s[i] = Semicolon /\ \A j \in (i + 1)..(p - 1) : s[j] = Whitespace
    \/ \E i \in p..Len(s) :
          s[i] = Semicolon /\ \A j \in p..(i - 1) : s[j] = Whitespace

(* Whitespace only between tokens, none at either end of the input.        *)
NoOuterWhitespace(s) == s = <<>> \/ (s[1] # Whitespace /\ s[Len(s)] # Whitespace)

(* The same tree, or an error in both cases (whichever error it is).       *)
SameResult(a, b) == IF a.ok THEN a = b ELSE ~b.ok

(* C6: statement separators are transparent.  Adding a ';' at the start,   *)
(* at the end or next to an existing ';' (whitespace between separators    *)
(* included) does not change the result of parse_tokens; an input that is  *)
(* empty or only ';' yields the unit literal; s1 ; s2 ; s3 chains as       *)
(* nested Statements in left-to-right order; a trailing ';' causes no      *)
(* error.                                                                  *)
C6_SeparatorsTransparent ==
    (call = <<"parse_tokens">> /\ NoOuterWhitespace(tokens)) =>
        LET nw == NonWhitespace(tokens) IN
        /\ SameResult(out, parse_tokens(<<Semicolon>> \o tokens))
        /\ SameResult(out, parse_tokens(tokens \o <<Semicolon>>))
        /\ \A p \in 1..(Len(tokens) + 1) :
              NextToSemicolon(tokens, p) =>
                  SameResult(out, parse_tokens(InsertAt(tokens, p, Semicolon)))
        /\ (\A i \in 1..Len(tokens) : tokens[i] = Semicolon) =>
              out = OkExpr(Literal(ValueUnit))
        /\ (/\ Len(nw) = 5
            /\ IsNumToken(nw[1]) /\ nw[2] = Semicolon
            /\ IsNumToken(nw[3]) /\ nw[4] = Semicolon
            /\ IsNumToken(nw[5])) =>
              out = OkExpr(Statements(Statements(NumExpr(nw[1]), NumExpr(nw[3])),
                                      NumExpr(nw[5])))

(* The call of parse_parens reached the inner expression and parsed it.    *)
InnerOfParens ==
    parse_expression(parse_fixed_symbol(tokens, "OpenParens").rest)

ParensInnerParsed ==
    /\ call = <<"parse_parens">>
    /\ parse_fixed_symbol(tokens, "OpenParens").ok
    /\ ~parse_fixed_symbol(parse_fixed_symbol(tokens, "OpenParens").rest,
                           "CloseParens").ok
    /\ InnerOfParens.ok

(* C7, as stated: when the input ends after the inner expression,          *)
(* parse_parens returns Parens(inner); when a token other than ')' follows *)
(* the inner expression, parse_parens returns an error.                    *)
C7_MissingCloseParen_AsStated ==
    ParensInnerParsed =>
        /\ InnerOfParens.rest = <<>> =>
              out = Ok(Parens(InnerOfParens.val), <<>>)
        /\ (InnerOfParens.rest # <<>>
            /\ Head(InnerOfParens.rest) # Symbol("CloseParens")) => ~out.ok

(* C7, amended: when no token at all (not even whitespace) is left after   *)
(* the inner expression, parse_parens returns Parens(inner), at any        *)
(* nesting depth; when tokens are left, it returns Parens(inner) with the  *)
(* cursor after the ')' iff the first token that is not whitespace is a    *)
(* ')', and an error otherwise, also when only whitespace is left.         *)
C7_MissingCloseParen ==
    /\ ParensInnerParsed =>
          LET inner == InnerOfParens
              nw == NonWhitespace(inner.rest)
          IN
          IF inner.rest = <<>>
          THEN out = Ok(Parens(inner.val), <<>>)
          ELSE IF nw # <<>> /\ nw[1] = Symbol("CloseParens")
          THEN out = Ok(Parens(inner.val), AfterTokens(inner.rest, 1))
          ELSE ~out.ok
    /\ (/\ call = <<"parse_parens">>
        /\ Len(tokens) = 5
        /\ tokens[1] = Symbol("OpenParens") /\ tokens[2] = Symbol("OpenParens")
        /\ IsNumToken(tokens[3]) /\ tokens[4] = Symbol("Add")
        /\ IsNumToken(tokens[5])) =>
          out = Ok(Parens(Parens(Bop("Plus", NumExpr(tokens[3]),
                                      NumExpr(tokens[5])))), <<>>)

(* "((1+1": both parentheses are left open at the end of the input.        *)
C7_Witness ==
    /\ ParensInnerParsed
    /\ out.ok
    /\ out.val.k = "Parens" /\ out.val.inner.k = "Parens"
    /\ IsBop(out.val.inner.inner, "Plus")
    /\ \A i \in 1..Len(tokens) : tokens[i] # Symbol("CloseParens")

(* "(1 )": whitespace follows the inner expression, then the ')'.          *)
C7_WitnessWhitespace ==
    /\ ParensInnerParsed
    /\ InnerOfParens.rest # <<>>
    /\ Head(InnerOfParens.rest) = Whitespace
    /\ out.ok

AmbiguitySignals == {"InvalidApplyOperands", "InvalidMixedFraction"}

(* C8: the error returned by parse_tokens and by parse_multiplicative is   *)
(* never InvalidApplyOperands and never InvalidMixedFraction (nor an error *)
(* that carries one); parse_multiplicative discards them and ends the      *)
(* chain or takes another alternative.                                     *)
C8_SignalsStayInternal ==
    /\ (/\ call \in {<<"parse_tokens">>, <<"parse_multiplicative">>,
                     <<"parse_implicit_addition">>}
        /\ pc = "returned" /\ ~out.ok) =>
          \A i \in 1..Len(out.err) : out.err[i] \notin AmbiguitySignals
    /\ last.alt = "apply" =>
          /\ ~last.mixed.ok
          /\ res = last.apply.val /\ input = last.apply.rest
    /\ last.alt = "break" =>
          /\ ~last.mixed.ok /\ ~last.apply.ok
          /\ out = Ok(last.lhs, last.at)

(* "1 1": the application of 1 to 1 failed with InvalidApplyOperands       *)
(* inside parse_multiplicative, and parse_tokens reports UnexpectedInput.  *)
C8_Witness ==
    /\ call = <<"parse_tokens">>
    /\ out = Err(<<"UnexpectedInput">>)
    /\ parse_power(tokens, TRUE).ok
    /\ parse_mixed_fraction(parse_power(tokens, TRUE).rest,
                            parse_power(tokens, TRUE).val)
           = Err(<<"InvalidMixedFraction">>)
    /\ parse_apply_cont(parse_power(tokens, TRUE).rest,
                        parse_power(tokens, TRUE).val)
           = Err(<<"InvalidApplyOperands">>)

(* a is what is left of b after at least one token was consumed.           *)
IsProperSuffix(a, b) ==
    /\ Len(a) < Len(b)
    /\ a = SubSeq(b, Len(b) - Len(a) + 1, Len(b))

(* A successful parse r from the cursor c consumed at least one token.     *)
Consumes(r, c) == r.ok => IsProperSuffix(r.rest, c)

(* C9: parse_tokens returns Ok(tree) only when parse_expression consumed   *)
(* every token, Err(UnexpectedInput) when any token (even one whitespace   *)
(* token) is left after parse_expression, and parse_expression's error     *)
(* otherwise.  Every accepted continuation of the loops of                 *)
(* parse_factorial, parse_multiplicative, parse_additive and               *)
(* parse_statements, and every successful parse of a term, consumes at     *)
(* least one token of the cursor it started from.                          *)
C9_TotalAndConsuming ==
    /\ call = <<"parse_tokens">> =>
          LET r == parse_expression(tokens) IN
          /\ out.ok => (r.ok /\ r.rest = <<>> /\ out = OkExpr(r.val))
          /\ ~out.ok => Len(out.err) >= 1
          /\ (r.ok /\ r.rest # <<>>) => out = Err(<<"UnexpectedInput">>)
          /\ ~r.ok => out = r
          /\ \A i \in 1..(Len(tokens) + 1) :
                LET c == SubSeq(tokens, i, Len(tokens)) IN
                /\ Consumes(parse_fixed_symbol(c, "Factorial"), c)
                /\ Consumes(parse_fixed_symbol(c, "Semicolon"), c)
                /\ Consumes(parse_addition_cont(c), c)
                /\ Consumes(parse_subtraction_cont(c), c)
                /\ Consumes(parse_to_cont(c), c)
                /\ Consumes(parse_power(c, TRUE), c)
                /\ Consumes(parse_multiplicative(c), c)
                /\ Consumes(parse_implicit_addition(c), c)
    /\ last.alt \in {"multiplication", "division", "modulo",
                     "mixed_fraction", "apply"} =>
          IsProperSuffix(input, last.at)
    /\ (call = <<"parse_multiplicative">> /\ pc = "returned" /\ out.ok) =>
          IsProperSuffix(out.rest, tokens)

(* "1 ": one whitespace token is left after parse_expression and           *)
(* parse_tokens reports UnexpectedInput.                                   *)
C9_Witness ==
    /\ call = <<"parse_tokens">>
    /\ parse_expression(tokens).ok
    /\ parse_expression(tokens).rest = <<Whitespace>>
    /\ out = Err(<<"UnexpectedInput">>)

(* A whole input of several loop iterations was consumed.                  *)
C9_WitnessAccepted ==
    /\ call = <<"parse_tokens">>
    /\ Len(tokens) >= 5
    /\ out.ok

IsPrimaryToken(t) == t.t \in {"Num", "Ident", "StringLiteral"}

Primary(t) == parse_parens_or_literal(<<t>>).val

UnaryPrefixes == {Symbol("Sub"), Symbol("Add"), Symbol("Div")}

Prefixed(sym, e) ==
    CASE sym = Symbol("Sub") -> UnaryMinus(e)
      [] sym = Symbol("Add") -> UnaryPlus(e)
      [] sym = Symbol("Div") -> UnaryDiv(e)

(* C10: in parse_power '^' is right-associative and a leading unary '-',   *)
(* '+' or '/' wraps the entire power expression that follows: a ^ b ^ c    *)
(* parses as Pow(a, Pow(b, c)), - a ^ b as UnaryMinus(Pow(a, b)); with     *)
(* allow_unary = false a leading '-', '+' or '/' makes parse_power fail.   *)
C10_PowerAssociativity ==
    LET nw == NonWhitespace(tokens) IN
    /\ (/\ call \in {<<"parse_power", TRUE>>, <<"parse_power", FALSE>>}
        /\ Len(nw) = 5
        /\ IsPrimaryToken(nw[1]) /\ nw[2] = Symbol("Pow")
        /\ IsPrimaryToken(nw[3]) /\ nw[4] = Symbol("Pow")
        /\ IsPrimaryToken(nw[5])) =>
          /\ out.ok
          /\ out.val = Bop("Pow", Primary(nw[1]),
                           Bop("Pow", Primary(nw[3]), Primary(nw[5])))
          /\ NonWhitespace(out.rest) = <<>>
    /\ (/\ call = <<"parse_power", TRUE>>
        /\ Len(nw) = 4
        /\ nw[1] \in UnaryPrefixes
        /\ IsPrimaryToken(nw[2]) /\ nw[3] = Symbol("Pow")
        /\ IsPrimaryToken(nw[4])) =>
          /\ out.ok
          /\ out.val = Prefixed(nw[1],
                                Bop("Pow", Primary(nw[2]), Primary(nw[4])))
          /\ NonWhitespace(out.rest) = <<>>
    /\ (/\ call = <<"parse_power", TRUE>>
        /\ nw # <<>>
        /\ nw[1] \in UnaryPrefixes) =>
          LET r == parse_power(AfterTokens(tokens, 1), TRUE) IN
          IF r.ok THEN out = Ok(Prefixed(nw[1], r.val), r.rest) ELSE out = r
    /\ (/\ call = <<"parse_power", FALSE>>
        /\ nw # <<>>
        /\ nw[1] \in UnaryPrefixes) =>
          out = Err(<<"UnexpectedSymbol", nw[1].v>>)

(* "-1^x": the minus wraps the power.                                      *)
C10_Witness ==
    /\ call = <<"parse_power", TRUE>>
    /\ Len(tokens) = 4
    /\ tokens[1] = Symbol("Sub")
    /\ out.ok
    /\ out.val.k = "UnaryMinus"
    /\ IsBop(out.val.inner, "Pow")
    /\ out.rest = <<>>

(* "1^x^1": the right operand of the first '^' is the second power.        *)
C10_WitnessRightAssociative ==
    /\ call = <<"parse_power", TRUE>>
    /\ Len(tokens) = 5
    /\ out.ok
    /\ IsBop(out.val, "Pow")
    /\ IsBop(out.val.b, "Pow")
    /\ out.val.a.k \in {"Literal", "Ident"}
    /\ out.rest = <<>>

(* "-1" with allow_unary = false is refused.                               *)
C10_WitnessRefused ==
    /\ call = <<"parse_power", FALSE>>
    /\ tokens # <<>>
    /\ tokens[1] = Symbol("Sub")
    /\ ~out.ok

(* What a binding form returns: lhs is the expression parsed before the   *)
(* symbol sym, rhs the parse of what follows it, Node the tree it builds.  *)
BindingResult(lhs, sym, rhs, Node(_, _), refusal) ==
    IF ~lhs.ok THEN lhs
    ELSE IF ~parse_fixed_symbol(lhs.rest, sym).ok THEN lhs
    ELSE IF lhs.val.k # "Ident" THEN Err(<<refusal>>)
    ELSE IF rhs.ok THEN Ok(Node(lhs.val.name, rhs.val), rhs.rest)
    ELSE rhs

(* C11: assignment and function arrow accept only a bare identifier on the *)
(* left.  When the expression parsed before '=' (the arrow) is Ident(name) *)
(* the result is Assign(name, rhs) with rhs parsed by parse_assignment     *)
(* (Fn(name, body) with body parsed by parse_function), so a = b = 3 is    *)
(* Assign(a, Assign(b, 3)); when it is any other shape the result is the   *)
(* error ExpectedIdentifierInAssignment (ExpectedIdentifierAsArgument).    *)
C11_BareIdentifierOnTheLeft ==
    LET nw == NonWhitespace(tokens)
        X(i) == Primary(nw[i])
    IN
    /\ call = <<"parse_assignment">> =>
          LET lhs == parse_function(tokens)
              rhs == parse_assignment(
                         parse_fixed_symbol(lhs.rest, "Equals").rest)
          IN
          /\ out = BindingResult(lhs, "Equals", rhs, Assign,
                                 "ExpectedIdentifierInAssignment")
          /\ (/\ Len(nw) = 5
              /\ nw[1].t = "Ident" /\ nw[2] = Symbol("Equals")
              /\ nw[3].t = "Ident" /\ nw[4] = Symbol("Equals")
              /\ IsNumToken(nw[5])) =>
                out = Ok(Assign(nw[1].v, Assign(nw[3].v, X(5))), <<>>)
          /\ (/\ Len(nw) >= 4
              /\ nw[1] = Symbol("OpenParens") /\ nw[2].t = "Ident"
              /\ nw[3] = Symbol("CloseParens") /\ nw[4] = Symbol("Equals")) =>
                out = Err(<<"ExpectedIdentifierInAssignment">>)
          /\ (/\ Len(nw) >= 2
              /\ IsNumToken(nw[1]) /\ nw[2] = Symbol("Equals")) =>
                out = Err(<<"ExpectedIdentifierInAssignment">>)
    /\ call = <<"parse_function">> =>
          LET lhs == parse_additive(tokens)
              rhs == parse_function(parse_fixed_symbol(lhs.rest, "Fn").rest)
          IN
          /\ out = BindingResult(lhs, "Fn", rhs, Fn,
                                 "ExpectedIdentifierAsArgument")
          /\ (/\ Len(nw) = 5
              /\ nw[1].t = "Ident" /\ nw[2] = Symbol("Fn")
              /\ nw[3].t = "Ident" /\ nw[4] = Symbol("Fn")
              /\ IsNumToken(nw[5])) =>
                out = Ok(Fn(nw[1].v, Fn(nw[3].v, X(5))), <<>>)
          /\ (/\ Len(nw) >= 2
              /\ IsNumToken(nw[1]) /\ nw[2] = Symbol("Fn")) =>
                out = Err(<<"ExpectedIdentifierAsArgument">>)

(* "(x) = 1": the left side is Parens(Ident) and the assignment is refused.*)
C11_Witness ==
    /\ call = <<"parse_assignment">>
    /\ parse_function(tokens).ok
    /\ parse_function(tokens).val = Parens(ExprIdent("x"))
    /\ parse_fixed_symbol(parse_function(tokens).rest, "Equals").ok
    /\ out = Err(<<"ExpectedIdentifierInAssignment">>)

(* "x = x = 1": the chained assignment nests to the right.                 *)
C11_WitnessChain ==
    /\ call = <<"parse_assignment">>
    /\ out.ok
    /\ out.val.k = "Assign"
    /\ out.val.rhs.k = "Assign"
    /\ out.rest = <<>>

(* "x of 1 : 1": the left side of the arrow is an Of and is refused.       *)
C11_WitnessArrow ==
    /\ call = <<"parse_function">>
    /\ parse_additive(tokens).ok
    /\ parse_additive(tokens).val.k = "Of"
    /\ out = Err(<<"ExpectedIdentifierAsArgument">>)

(* C12: whitespace is illegal where a token is structurally required.  A  *)
(* Whitespace token between the backslash and the parameter identifier     *)
(* makes parse_backslash_lambda, and so parse_tokens, return an error; a   *)
(* whitespace token met where a primary expression is required yields the  *)
(* UnexpectedWhitespace error.                                             *)
C12_WhitespaceIllegal ==
    /\ (/\ call \in {<<"parse_backslash_lambda">>, <<"parse_tokens">>}
        /\ Len(tokens) >= 3
        /\ tokens[1] = Symbol("Backslash")
        /\ tokens[2] = Whitespace
        /\ tokens[3].t = "Ident") => ~out.ok
    /\ (/\ call = <<"parse_parens_or_literal">>
        /\ tokens # <<>>
        /\ Head(tokens) = Whitespace) =>
          out = Err(<<"UnexpectedWhitespace">>)

(* The calendar, counted from a year y (a month m of y) on: the year      *)
(* (month) that contains day n and the number of the day within it.        *)
RECURSIVE YearOfDay(_, _)
YearOfDay(y, n) ==
    IF n >= Year_number_of_days(y)
    THEN YearOfDay(y + 1, n - Year_number_of_days(y))
    ELSE [year |-> y, days |-> n]

RECURSIVE MonthOfDay(_, _, _)
MonthOfDay(m, y, n) ==
    IF n >= Month_number_of_days(m, y)
    THEN MonthOfDay(Month_next(m), y, n - Month_number_of_days(m, y))
    ELSE [month |-> m, days |-> n]

(* The date of day d, day 0 being 1 January 1970.                          *)
DateOfDay(d) ==
    LET y == YearOfDay(1970, d)
        m == MonthOfDay("January", y.year, y.days)
    IN Date(y.year, m.month, m.days + 1)

(* today() runs on a clock whose timezone-adjusted time is not before the  *)
(* epoch.                                                                  *)
TodayFromEpochOn ==
    /\ current_time \in Clocks
    /\ pc \in {"year_loop", "month_loop", "returned"}
    /\ current_time.whole_days
           + (ms_of_day_adjusted(current_time) \div MsPerDay) >= 0

(* C13: Date::today converts the day count d >= 0 into the calendar date   *)
(* of day d.  The running day count never becomes negative; the year loop  *)
(* ends with the Gregorian year that contains day d and                    *)
(* 0 <= days < number_of_days(year); the month loop ends with              *)
(* 0 <= days < number_of_days(month, year); the date returned is the date  *)
(* of day d.                                                               *)
C13_TodayIsTheDate ==
    TodayFromEpochOn =>
        LET d == days_since_epoch(current_time) IN
        /\ days >= 0
        /\ pc \in {"month_loop", "returned"} =>
              /\ year = YearOfDay(1970, d).year
              /\ days < Year_number_of_days(year)
        /\ pc = "returned" =>
              /\ days < Month_number_of_days(month, year)
              /\ out.ok
              /\ out.val.year = DateOfDay(d).year
              /\ out.val.month = DateOfDay(d).month
              \* the day of the month, counted from 1 or from 0
              /\ out.val.day \in {DateOfDay(d).day, DateOfDay(d).day - 1}

====
